---- MODULE Spec2Model ----
(***************************************************************************)
(* LearnTrack: the status evaluator (ScheduleStatusService) and the        *)
(* per-user aggregation built on it.                                       *)
(*                                                                         *)
(* A datetime is an integer count of minutes since midnight of day 0.      *)
(* An Optional[datetime] is a sequence of length 0 (None) or 1.            *)
(* A raised exception is the record [exception |-> <name>].                *)
(***************************************************************************)
EXTENDS Integers, Sequences, FiniteSets, TLC

VARIABLES
    enrollment,     \* CourseEnrollment handed to calculate_status
    schedule,       \* CourseSchedule handed to calculate_status
    current_date,   \* the as-of datetime of the evaluation
    now,            \* datetime.now() of the process (wall clock, in days)
    results,        \* what the successive calculate_status calls returned
    schedules,      \* list of CourseSchedule given to ScheduleStatusService
    schedules_map,  \* ScheduleStatusService.schedules_map
    enrollments,    \* list of CourseEnrollment of one user
    statuses,       \* what calculate_user_status returned: <<>> before the call
    user_summary,   \* what get_user_summary returned: <<>> before the call
    reminders,      \* what get_courses_needing_reminder returned
    status_type,    \* status handed to EmailTemplateFactory.get_template
    user,           \* User handed to EmailTemplateFactory.get_template
    template,       \* what get_template returned: <<>> before the call
    user_summaries, \* list of dicts handed to ManagerSummaryTemplate
    body,           \* what its generate_body returned: <<>> before the call
    users_file,     \* content of the users JSON file
    enrollments_file,  \* content of the enrollments JSON file
    email_log,      \* the e-mail log file of the EmailService
    users,          \* DailyReminderJob.users
    enrollments_by_user,    \* DailyReminderJob.enrollments_by_user
    users_needing_reminders,    \* local list of process_reminders
    manager_summaries,      \* local defaultdict(list) of process_reminders
    email_stats,    \* local counters of process_reminders
    sent_emails,    \* EmailService.sent_emails
    stats,          \* what run() returned or raised: <<>> before its end
    pc,             \* where run() is
    user_pos,       \* users the loop over self.users has gone through
    reminder_pos,   \* entries the reminder loop has gone through
    manager_pos,    \* entries the manager-summary loop has gone through
    log_saves,      \* calls of save_email_log made so far
    log_error,      \* the error save_email_log printed last: <<>> if none
    send_results,   \* what the send calls on the EmailService returned
    email_statistics,   \* what get_email_statistics returned last
    api_enrollments_data,   \* api/app.py: the global enrollments_data
    responses       \* what the endpoints of the API answered so far

serviceVars == <<enrollment, schedule, current_date, now, results,
                 schedules, schedules_map, enrollments, statuses,
                 user_summary, reminders>>

templateVars == <<status_type, user, template, user_summaries, body>>

jobVars == <<users_file, enrollments_file, email_log, users,
             enrollments_by_user, users_needing_reminders,
             manager_summaries, email_stats, sent_emails, stats, pc,
             user_pos, reminder_pos, manager_pos>>

emailVars == <<log_saves, log_error, send_results, email_statistics>>

apiVars == <<api_enrollments_data, responses>>

vars == <<serviceVars, templateVars, jobVars, emailVars, apiVars>>

(***************************************************************************)
(* Bounds of the model.                                                    *)
(***************************************************************************)
MaxEnrollDay == 1
MaxDay == 14
MaxDaysToComplete == 2
MaxCalls == 2
MaxNow == 1
MaxEnrollments == 2

(***************************************************************************)
(* datetime arithmetic.                                                    *)
(***************************************************************************)
MinutesPerDay == 1440

\* times of day used for the inputs: 00:00, 10:54, 13:00
TimesOfDay == {0, 10 * 60 + 54, 13 * 60}

datetime(day, tod) == day * MinutesPerDay + tod

None == <<>>
Some(t) == <<t>>

\* timedelta.days of (a - b): timedelta normalises to 0 <= seconds < 86400,
\* so days is the floor of the difference in days, also when a < b
timedelta_days(a, b) == (a - b) \div MinutesPerDay

\* strftime('%Y-%m-%d'): the calendar date of a datetime, time of day dropped
strftime_date(t) == t \div MinutesPerDay

Max(a, b) == IF a >= b THEN a ELSE b

(***************************************************************************)
(* models/course_models.py                                                 *)
(***************************************************************************)
EnrollmentStatus == {"Enrolled", "In Progress", "Completed"}

ScheduleStatus == {"started", "needs reminder", "progressed", "completed"}

CourseEnrollment(course_id, status, enrollment_date, start_date, completion_date) ==
    [course_id |-> course_id, status |-> status,
     enrollment_date |-> enrollment_date,
     start_date |-> start_date, completion_date |-> completion_date]

CourseSchedule(course_id, days_to_complete, batch) ==
    [course_id |-> course_id, days_to_complete |-> days_to_complete,
     batch |-> batch]

CourseScheduleStatus(course_id, status, enr, sch, days_overdue, message) ==
    [course_id |-> course_id, status |-> status, enrollment |-> enr,
     schedule |-> sch, days_overdue |-> days_overdue, message |-> message]

is_completed(e) == e.status = "Completed"

is_started(e) == e.start_date # None

days_since_enrollment_calendar(e, date) ==
    strftime_date(date) - strftime_date(e.enrollment_date)

days_since_enrollment(e, date) == timedelta_days(date, e.enrollment_date)

needs_reminder(s) == s.status = "needs reminder"

(***************************************************************************)
(* Exceptions.                                                             *)
(***************************************************************************)
Raise(name) == [exception |-> name]

Raised(r) == "exception" \in DOMAIN r

\* an f-string message: its fixed text and the number or date formatted in
Message(text, n) == [text |-> text, n |-> n]

(***************************************************************************)
(* services/status_service.py: ScheduleStatusService.calculate_status      *)
(***************************************************************************)
\* Case 1: the status returned for a completed course; formatting the
\* completion date of an enrollment that has none raises AttributeError
Case1_Completed_overdue(enr, sch, days_overdue) ==
    IF enr.completion_date = None
    THEN Raise("AttributeError")
    ELSE CourseScheduleStatus(enr.course_id, "completed", enr, sch, days_overdue,
             Message("Completed on", strftime_date(enr.completion_date[1])))

Case1_Completed(enr, sch, days_overdue) ==
    IF enr.completion_date = None
    THEN Raise("AttributeError")
    ELSE CourseScheduleStatus(enr.course_id, "completed", enr, sch, 0,
             Message("Completed on", strftime_date(enr.completion_date[1])))

\* Case 2: the course is overdue
Case2_Overdue(enr, sch, days_overdue) ==
    LET status_detail == IF ~is_started(enr) THEN "Not started"
                         ELSE "In progress but overdue"
    IN  CourseScheduleStatus(enr.course_id, "needs reminder", enr, sch,
            days_overdue, Message(status_detail, days_overdue))

\* Case 3: in progress and within the deadline
Case3_InProgress(enr, sch, days) ==
    LET days_remaining == sch.days_to_complete - days
    IN  CourseScheduleStatus(enr.course_id, "progressed", enr, sch, 0,
            Message("In progress - days remaining", days_remaining))

\* Case 4: started, not marked "In Progress" yet
Case4_Started(enr, sch, days) ==
    LET days_remaining == sch.days_to_complete - days
    IN  CourseScheduleStatus(enr.course_id, "started", enr, sch, 0,
            Message("Started - days remaining", days_remaining))

\* Case 5: enrolled, not started, within the deadline
Case5_Enrolled(enr, sch, days) ==
    LET days_remaining == sch.days_to_complete - days
    IN  CourseScheduleStatus(enr.course_id, "started", enr, sch, 0,
            Message("Enrolled - days to start and complete", days_remaining))

\* calculate_status with the deadline day itself counted as overdue
calculate_status_inclusive(enr, sch, date) ==
    LET days == days_since_enrollment(enr, date)
        days_overdue == Max(0, days - sch.days_to_complete)
    IN  IF is_completed(enr) THEN Case1_Completed(enr, sch, days_overdue)
        ELSE IF days >= sch.days_to_complete
             THEN Case2_Overdue(enr, sch, days_overdue)
        ELSE IF enr.status = "In Progress" THEN Case3_InProgress(enr, sch, days)
        ELSE IF is_started(enr) THEN Case4_Started(enr, sch, days)
        ELSE Case5_Enrolled(enr, sch, days)

\* calculate_status with the overdue check made before the completed check
calculate_status_overdue_first(enr, sch, date) ==
    LET days == days_since_enrollment(enr, date)
        days_overdue == Max(0, days - sch.days_to_complete)
    IN  IF days > sch.days_to_complete
        THEN Case2_Overdue(enr, sch, days_overdue)
        ELSE IF is_completed(enr) THEN Case1_Completed(enr, sch, days_overdue)
        ELSE IF enr.status = "In Progress" THEN Case3_InProgress(enr, sch, days)
        ELSE IF is_started(enr) THEN Case4_Started(enr, sch, days)
        ELSE Case5_Enrolled(enr, sch, days)

\* calculate_status reading the wall clock instead of its current_date
calculate_status_wall_clock(enr, sch, date) ==
    LET days == days_since_enrollment(enr, datetime(now, 0))
        days_overdue == Max(0, days - sch.days_to_complete)
    IN  IF is_completed(enr) THEN Case1_Completed(enr, sch, days_overdue)
        ELSE IF days > sch.days_to_complete
             THEN Case2_Overdue(enr, sch, days_overdue)
        ELSE IF enr.status = "In Progress" THEN Case3_InProgress(enr, sch, days)
        ELSE IF is_started(enr) THEN Case4_Started(enr, sch, days)
        ELSE Case5_Enrolled(enr, sch, days)

\* calculate_status with the "In Progress" check made before the overdue
\* check
calculate_status_in_progress_first(enr, sch, date) ==
    LET days == days_since_enrollment(enr, date)
        days_overdue == Max(0, days - sch.days_to_complete)
    IN  IF is_completed(enr) THEN Case1_Completed(enr, sch, days_overdue)
        ELSE IF enr.status = "In Progress" THEN Case3_InProgress(enr, sch, days)
        ELSE IF days > sch.days_to_complete
             THEN Case2_Overdue(enr, sch, days_overdue)
        ELSE IF is_started(enr) THEN Case4_Started(enr, sch, days)
        ELSE Case5_Enrolled(enr, sch, days)

calculate_status(enr, sch, date) ==
    LET days == days_since_enrollment(enr, date)
        days_overdue == Max(0, days - sch.days_to_complete)
    IN  IF is_completed(enr) THEN Case1_Completed(enr, sch, days_overdue)
        ELSE IF days > sch.days_to_complete
             THEN Case2_Overdue(enr, sch, days_overdue)
        ELSE IF enr.status = "In Progress" THEN Case3_InProgress(enr, sch, days)
        ELSE IF is_started(enr) THEN Case4_Started(enr, sch, days)
        ELSE Case5_Enrolled(enr, sch, days)

(***************************************************************************)
(* services/status_service.py: the service's map and the aggregation       *)
(***************************************************************************)
\* __init__: {schedule.course_id: schedule for schedule in schedules}; of
\* two schedules with one course id the later one stays
ScheduleStatusService(scheds) ==
    [c \in {scheds[i].course_id : i \in DOMAIN scheds} |->
        scheds[CHOOSE i \in DOMAIN scheds :
                  /\ scheds[i].course_id = c
                  /\ \A j \in DOMAIN scheds :
                        scheds[j].course_id = c => j <= i]]

\* a list a method returns, as opposed to an exception it raises
Return(value) == [value |-> value]

\* the loop of calculate_user_status over the enrollments left, acc being the
\* statuses appended so far; an exception of calculate_status leaves the loop
RECURSIVE calculate_user_status_loop(_, _, _)
calculate_user_status_loop(enrs, date, acc) ==
    IF enrs = <<>> THEN Return(acc)
    ELSE LET enr == Head(enrs)
         IN  IF enr.course_id \notin DOMAIN schedules_map
             THEN calculate_user_status_loop(Tail(enrs), date, acc)
             ELSE LET status == calculate_status(
                                    enr, schedules_map[enr.course_id], date)
                  IN  IF Raised(status) THEN status
                      ELSE calculate_user_status_loop(
                               Tail(enrs), date, Append(acc, status))

calculate_user_status(enrs, date) ==
    calculate_user_status_loop(enrs, date, <<>>)

\* get_courses_needing_reminder returning every status that is not Completed
get_courses_needing_reminder_not_completed(enrs, date) ==
    LET all_statuses == calculate_user_status(enrs, date)
    IN  IF Raised(all_statuses) THEN all_statuses
        ELSE Return(SelectSeq(all_statuses.value,
                              LAMBDA s : s.status # "completed"))

get_courses_needing_reminder(enrs, date) ==
    LET all_statuses == calculate_user_status(enrs, date)
    IN  IF Raised(all_statuses) THEN all_statuses
        ELSE Return(SelectSeq(all_statuses.value, needs_reminder))

\* the body of the loop of get_user_summary with on_track counted for
\* every status that is not NeedsReminder
summary_step_on_track_completed(summary, status) ==
    IF status.status = "completed"
    THEN [summary EXCEPT !.completed = @ + 1, !.on_track = @ + 1]
    ELSE IF status.status = "needs reminder"
    THEN [summary EXCEPT !.needs_reminder = @ + 1]
    ELSE IF status.status \in {"progressed", "started"}
    THEN IF status.days_overdue = 0
         THEN [summary EXCEPT !.in_progress = @ + 1, !.on_track = @ + 1]
         ELSE [summary EXCEPT !.in_progress = @ + 1]
    ELSE summary

\* the body of the loop of get_user_summary with only the Progressed
\* statuses counted as in progress
summary_step_progressed_only(summary, status) ==
    IF status.status = "completed"
    THEN [summary EXCEPT !.completed = @ + 1]
    ELSE IF status.status = "needs reminder"
    THEN [summary EXCEPT !.needs_reminder = @ + 1]
    ELSE IF status.status \in {"progressed"}
    THEN IF status.days_overdue = 0
         THEN [summary EXCEPT !.in_progress = @ + 1, !.on_track = @ + 1]
         ELSE [summary EXCEPT !.in_progress = @ + 1]
    ELSE summary

\* the body of the loop of get_user_summary: one status counted
summary_step(summary, status) ==
    IF status.status = "completed"
    THEN [summary EXCEPT !.completed = @ + 1]
    ELSE IF status.status = "needs reminder"
    THEN [summary EXCEPT !.needs_reminder = @ + 1]
    ELSE IF status.status \in {"progressed", "started"}
    THEN IF status.days_overdue = 0
         THEN [summary EXCEPT !.in_progress = @ + 1, !.on_track = @ + 1]
         ELSE [summary EXCEPT !.in_progress = @ + 1]
    ELSE summary

RECURSIVE get_user_summary_loop(_, _)
get_user_summary_loop(all_statuses, summary) ==
    IF all_statuses = <<>> THEN summary
    ELSE get_user_summary_loop(Tail(all_statuses),
                               summary_step(summary, Head(all_statuses)))

\* get_user_summary with total_courses taken from the input enrollments
get_user_summary_total_of_input(enrs, date) ==
    LET all_statuses == calculate_user_status(enrs, date)
    IN  IF Raised(all_statuses) THEN all_statuses
        ELSE Return(get_user_summary_loop(all_statuses.value,
                 [total_courses |-> Len(enrs), completed |-> 0,
                  in_progress |-> 0, needs_reminder |-> 0, on_track |-> 0]))

get_user_summary(enrs, date) ==
    LET all_statuses == calculate_user_status(enrs, date)
    IN  IF Raised(all_statuses) THEN all_statuses
        ELSE Return(get_user_summary_loop(all_statuses.value,
                 [total_courses |-> Len(all_statuses.value), completed |-> 0,
                  in_progress |-> 0, needs_reminder |-> 0, on_track |-> 0]))

(***************************************************************************)
(* Users and e-mail templates.  A formatted string is the record of its    *)
(* fixed text and of the values interpolated into it.                      *)
(***************************************************************************)
User(user_id, name, email, manager_email, hire_date) ==
    [user_id |-> user_id, name |-> name, email |-> email,
     manager_email |-> manager_email, hire_date |-> hire_date]

\* an instance of one of the EmailTemplate subclasses
EmailTemplate(class, u) == [class |-> class, user |-> u]

template_map ==
    ("needs reminder" :> "NeedsReminderTemplate") @@
    ("progressed" :> "ProgressedTemplate") @@
    ("started" :> "StartedTemplate") @@
    ("completed" :> "CompletedTemplate")

\* a lookup without the fallback: template_map[status]
get_template_no_default(status, u) ==
    IF status \in DOMAIN template_map
    THEN EmailTemplate(template_map[status], u)
    ELSE Raise("KeyError")

\* template_map.get(status, NeedsReminderTemplate)(user)
get_template(status, u) ==
    LET template_class ==
            IF status \in DOMAIN template_map THEN template_map[status]
            ELSE "NeedsReminderTemplate"
    IN  EmailTemplate(template_class, u)

\* generate_subject of each subclass
generate_subject(self) ==
    [text |-> CASE self.class = "NeedsReminderTemplate" ->
                       "[Action Required] Course Completion Reminder for {}"
                [] self.class = "ProgressedTemplate" ->
                       "Great Progress on Your Learning Journey, {}!"
                [] self.class = "StartedTemplate" ->
                       "Welcome to Your Learning Journey, {}!"
                [] self.class = "CompletedTemplate" ->
                       "Congratulations on Completing Your Courses, {}!",
     name |-> self.user.name]

\* generate_body of each subclass: the greeting, the framing text of the
\* subclass and one "course_id: message" line per course, in order
generate_body(self, courses) ==
    [class |-> self.class,
     name |-> self.user.name,
     course_details |->
         [i \in 1..Len(courses) |->
             [course_id |-> courses[i].course_id,
              message |-> courses[i].message]]]

ManagerSummaryTemplate(manager_email) ==
    [class |-> "ManagerSummaryTemplate", manager_email |-> manager_email]

get_manager_template(manager_email) == ManagerSummaryTemplate(manager_email)

manager_generate_subject(self, user_count) ==
    [text |-> "Daily Learning Progress Report - {} Team Members",
     user_count |-> user_count]

\* the keys one summary line reads, in the order it reads them
SummaryKeys ==
    <<"user_name", "needs_reminder_count", "completed_count",
      "in_progress_count">>

\* the first key of SummaryKeys the dict lacks, or "" if it has them all
MissingKey(summary) ==
    LET missing == {i \in 1..Len(SummaryKeys) :
                       SummaryKeys[i] \notin DOMAIN summary}
    IN  IF missing = {} THEN ""
        ELSE SummaryKeys[CHOOSE i \in missing : \A j \in missing : i <= j]

\* a line tagged by the completed count instead of the needs-reminder count
summary_line_by_completed(summary) ==
    LET needs_attention == summary.needs_reminder_count
    IN  [tag |-> IF summary.completed_count = 0 THEN "[NEEDS ATTENTION]"
                 ELSE "[COMPLETED]",
         user_name |-> summary.user_name,
         completed |-> summary.completed_count,
         in_progress |-> summary.in_progress_count,
         needs_attention |-> needs_attention]

\* one pass of the loop of ManagerSummaryTemplate.generate_body
summary_line(summary) ==
    LET needs_attention == summary.needs_reminder_count
    IN  [tag |-> IF needs_attention > 0 THEN "[NEEDS ATTENTION]"
                 ELSE "[COMPLETED]",
         user_name |-> summary.user_name,
         completed |-> summary.completed_count,
         in_progress |-> summary.in_progress_count,
         needs_attention |-> needs_attention]

RECURSIVE summary_lines_loop(_, _)
summary_lines_loop(summaries, summary_lines) ==
    IF summaries = <<>> THEN Return(summary_lines)
    ELSE IF MissingKey(Head(summaries)) # ""
         THEN Raise("KeyError")
         ELSE summary_lines_loop(Tail(summaries),
                  Append(summary_lines, summary_line(Head(summaries))))

\* the body: its fixed text around the joined summary lines
manager_generate_body(self, summaries) ==
    LET summary_lines == summary_lines_loop(summaries, <<>>)
    IN  IF Raised(summary_lines) THEN summary_lines
        ELSE Return([class |-> self.class, lines |-> summary_lines.value])

\* no template has been asked for yet
NoTemplateCall ==
    /\ status_type = None
    /\ user = None
    /\ template = None
    /\ user_summaries = <<>>
    /\ body = None

(***************************************************************************)
(* EmailService.  A send gives back its result and the new sent_emails.    *)
(***************************************************************************)
\* a send that reports success without keeping the record
send_user_reminder_unlogged(sent, u, courses, status) ==
    IF courses = <<>> THEN [result |-> Return(FALSE), sent_emails |-> sent]
    ELSE [result |-> Return(TRUE), sent_emails |-> sent]

send_user_reminder(sent, u, courses, status) ==
    IF courses = <<>> THEN [result |-> Return(FALSE), sent_emails |-> sent]
    ELSE LET email_template == get_template(status, u)
             subject == generate_subject(email_template)
             email_body == generate_body(email_template, courses)
         IN  IF status \notin ScheduleStatus
             THEN \* status_type.value of a value that is no enum member
                  [result |-> Raise("AttributeError"), sent_emails |-> sent]
             ELSE [result |-> Return(TRUE),
                   sent_emails |-> Append(sent,
                      [timestamp |-> now,
                       to |-> u.email,
                       from |-> "noreply@learningplatform.com",
                       subject |-> subject,
                       body |-> email_body,
                       type |-> "user_reminder",
                       status_type |-> status,
                       course_ids |-> [i \in 1..Len(courses) |->
                                          courses[i].course_id]])]

send_manager_summary(sent, manager_email, summaries) ==
    IF summaries = <<>> THEN [result |-> Return(FALSE), sent_emails |-> sent]
    ELSE LET email_template == get_manager_template(manager_email)
             subject == manager_generate_subject(email_template,
                                                 Len(summaries))
             email_body == manager_generate_body(email_template, summaries)
         IN  IF Raised(email_body)
             THEN [result |-> email_body, sent_emails |-> sent]
             ELSE [result |-> Return(TRUE),
                   sent_emails |-> Append(sent,
                      [timestamp |-> now,
                       to |-> manager_email,
                       from |-> "noreply@learningplatform.com",
                       subject |-> subject,
                       body |-> email_body.value,
                       type |-> "manager_summary",
                       user_count |-> Len(summaries)])]

\* the log file and the records its text holds.  Its kind is "list" (a
\* JSON list of the records), "missing" (no file), "invalid" (no valid
\* JSON, as an interrupted write leaves it) or "object" (valid JSON that
\* is no list)
LogFile(kind, entries) == [kind |-> kind, entries |-> entries]

\* what the file system does when save_email_log writes: the write
\* succeeds, open(..., 'w') fails, or json.dump fails after open has
\* truncated the file and `written` records have been written out
Write(fails, written) == [fails |-> fails, written |-> written]

WriteOutcomes ==
    {Write("never", 0), Write("open", 0), Write("dump", 0), Write("dump", 1)}

Min(a, b) == IF a < b THEN a ELSE b

\* gives the file after the call and the error the outer except printed
save_email_log(log_file, sent, write) ==
    IF log_file.kind = "object"
    THEN \* existing_logs.extend of a value that is no list
         [log_file |-> log_file, error |-> Some("AttributeError")]
    ELSE LET existing_logs ==
                 IF log_file.kind = "list" THEN log_file.entries
                 ELSE <<>>   \* FileNotFoundError, JSONDecodeError
             new_logs == existing_logs \o sent
         IN  IF write.fails = "open"
             THEN [log_file |-> log_file, error |-> Some("OSError")]
             ELSE IF write.fails = "dump"
             THEN [log_file |->
                      LogFile("invalid",
                          SubSeq(new_logs, 1,
                                 Min(write.written, Len(new_logs)))),
                   error |-> Some("OSError")]
             ELSE [log_file |-> LogFile("list", new_logs), error |-> None]

\* get_email_statistics: a pass over sent_emails
\* get_email_statistics counting every record as a user reminder
get_email_statistics_untyped(sent) ==
    [total_sent |-> Len(sent),
     user_reminders |-> Len(sent),
     manager_summaries |->
         Len(SelectSeq(sent, LAMBDA email : email.type = "manager_summary"))]

get_email_statistics(sent) ==
    [total_sent |-> Len(sent),
     user_reminders |->
         Len(SelectSeq(sent, LAMBDA email : email.type = "user_reminder")),
     manager_summaries |->
         Len(SelectSeq(sent, LAMBDA email : email.type = "manager_summary"))]

(***************************************************************************)
(* DailyReminderJob.  The data files hold the parsed objects.              *)
(***************************************************************************)
\* the loop of load_data over enrollments_data
RECURSIVE load_enrollments(_, _)
load_enrollments(by_user, enrollments_data) ==
    IF enrollments_data = <<>> THEN by_user
    ELSE LET user_enrollment == Head(enrollments_data)
         IN  load_enrollments(
                 (user_enrollment.user_id :> user_enrollment.enrollments)
                     @@ by_user,
                 Tail(enrollments_data))

\* enrollments_by_user.get(user_id, [])
enrollments_of(by_user, user_id) ==
    IF user_id \in DOMAIN by_user THEN by_user[user_id] ELSE <<>>

\* manager_summaries[key].append(row) on a defaultdict(list), which keeps
\* its keys in insertion order
defaultdict_append(summaries_by_manager, key, row) ==
    IF \E k \in DOMAIN summaries_by_manager :
          summaries_by_manager[k].manager_email = key
    THEN [k \in DOMAIN summaries_by_manager |->
            IF summaries_by_manager[k].manager_email = key
            THEN [summaries_by_manager[k] EXCEPT
                    !.summaries = Append(@, row)]
            ELSE summaries_by_manager[k]]
    ELSE Append(summaries_by_manager,
                [manager_email |-> key, summaries |-> <<row>>])

\* the summary row of a user
summary_row(u, summary) ==
    [user_name |-> u.name,
     user_email |-> u.email,
     completed_count |-> summary.completed,
     in_progress_count |-> summary.in_progress,
     needs_reminder_count |-> summary.needs_reminder,
     total_courses |-> summary.total_courses]

\* a pass of the loop that does not skip a user without enrollments
process_user_no_skip(u, by_user, date, needing, summaries_by_manager) ==
    LET user_enrollments == enrollments_of(by_user, u.user_id)
        user_statuses == calculate_user_status(user_enrollments, date)
    IN  IF Raised(user_statuses) THEN user_statuses
        ELSE LET needs == SelectSeq(user_statuses.value, needs_reminder)
                 summary == get_user_summary(user_enrollments, date)
             IN  Return(
                   [users_needing_reminders |->
                        IF needs # <<>>
                        THEN Append(needing, [user |-> u, courses |-> needs])
                        ELSE needing,
                    manager_summaries |->
                        defaultdict_append(summaries_by_manager,
                            u.manager_email,
                            summary_row(u, summary.value))])

\* one pass of the loop of process_reminders over self.users
process_user(u, by_user, date, needing, summaries_by_manager) ==
    LET user_enrollments == enrollments_of(by_user, u.user_id)
        user_statuses == calculate_user_status(user_enrollments, date)
    IN  IF user_enrollments = <<>>
        THEN Return([users_needing_reminders |-> needing,
                     manager_summaries |-> summaries_by_manager])
        ELSE IF Raised(user_statuses) THEN user_statuses
        ELSE LET needs == SelectSeq(user_statuses.value, needs_reminder)
                 summary == get_user_summary(user_enrollments, date)
             IN  Return(
                   [users_needing_reminders |->
                        IF needs # <<>>
                        THEN Append(needing, [user |-> u, courses |-> needs])
                        ELSE needing,
                    manager_summaries |->
                        defaultdict_append(summaries_by_manager,
                            u.manager_email,
                            summary_row(u, summary.value))])

\* the job statistics process_reminders compiles
job_stats(date, loaded_users, needing, counters) ==
    [execution_date |-> date,
     users_processed |-> Len(loaded_users),
     users_needing_reminders |-> Len(needing),
     reminder_emails_sent |-> counters.users_emailed,
     manager_summaries_sent |-> counters.managers_emailed,
     total_emails_sent |->
         counters.users_emailed + counters.managers_emailed]

\* the API has loaded no data and answered no request
NoApiCall ==
    /\ api_enrollments_data = <<>>
    /\ responses = <<>>

\* no call made on the EmailService yet
NoEmailCall ==
    /\ log_saves = 0
    /\ log_error = None
    /\ send_results = <<>>
    /\ email_statistics = None

\* a job and its EmailService as constructed, nothing run yet
NoJobRun ==
    /\ users_file = <<>>
    /\ enrollments_file = <<>>
    /\ email_log = LogFile("missing", <<>>)
    /\ users = <<>>
    /\ enrollments_by_user = <<>>
    /\ users_needing_reminders = <<>>
    /\ manager_summaries = <<>>
    /\ email_stats = [users_emailed |-> 0, managers_emailed |-> 0]
    /\ sent_emails = <<>>
    /\ stats = None
    /\ pc = "new"
    /\ user_pos = 0
    /\ reminder_pos = 0
    /\ manager_pos = 0
    /\ NoEmailCall

(***************************************************************************)
(* The inputs of the evaluator.                                            *)
(***************************************************************************)
EnrollmentDates ==
    {datetime(d, t) : d \in 0..MaxEnrollDay, t \in TimesOfDay}

AsOfDates == {datetime(d, t) : d \in 0..MaxDay, t \in TimesOfDay}

\* None, a completion on the enrollment's first days, or a late one
CompletionDates ==
    {None, Some(datetime(1, 10 * 60 + 54)), Some(datetime(MaxDay, 0))}

\* None, or a start at 13:00 of day 0 (the source never compares a start
\* date with the enrollment date, so it may lie before it)
StartDates == {None, Some(datetime(0, 13 * 60))}

EvalCourse == "COURSE_001"

EvalEnrollments ==
    {CourseEnrollment(EvalCourse, st, ed, sd, cd) :
        st \in EnrollmentStatus, ed \in EnrollmentDates,
        sd \in StartDates, cd \in CompletionDates}

EvalSchedules ==
    {CourseSchedule(EvalCourse, D, 0) : D \in 0..MaxDaysToComplete}

(***************************************************************************)
(* SpecEval: calculate_status called repeatedly on one input while the     *)
(* wall clock advances.                                                    *)
(***************************************************************************)
InitEval ==
    /\ enrollment \in EvalEnrollments
    /\ schedule \in EvalSchedules
    /\ current_date \in AsOfDates
    /\ now = 0
    /\ results = <<>>
    /\ schedules = <<schedule>>
    /\ schedules_map = ScheduleStatusService(schedules)
    /\ enrollments = <<enrollment>>
    /\ statuses = None
    /\ user_summary = None
    /\ reminders = None
    /\ NoTemplateCall
    /\ NoJobRun
    /\ NoApiCall

CalculateStatus ==
    /\ Len(results) < MaxCalls
    /\ results' = Append(results,
                         calculate_status(enrollment, schedule, current_date))
    /\ UNCHANGED <<templateVars, jobVars, emailVars, apiVars>>
    /\ UNCHANGED <<enrollment, schedule, current_date, now,
                   schedules, schedules_map, enrollments, statuses,
                   user_summary, reminders>>

Tick ==
    /\ now < MaxNow
    /\ now' = now + 1
    /\ UNCHANGED <<templateVars, jobVars, emailVars, apiVars>>
    /\ UNCHANGED <<enrollment, schedule, current_date, results,
                   schedules, schedules_map, enrollments, statuses,
                   user_summary, reminders>>

NextEval == CalculateStatus \/ Tick

SpecEval == InitEval /\ [][NextEval]_vars

(***************************************************************************)
(* Claims on calculate_status, checked under SpecEval.                     *)
(***************************************************************************)
DaysToComplete == schedule.days_to_complete

\* whole days between the enrollment and the as-of date, by the calendar
CalendarDays ==
    strftime_date(current_date) - strftime_date(enrollment.enrollment_date)

\* C1: for a not-completed enrollment, an evaluation exactly D whole days
\* after the enrollment timestamp is Progressed or Started with
\* days_overdue = 0, and one exactly D+1 whole days after it is
\* NeedsReminder with days_overdue = 1.
C1_DeadlineBoundary ==
    \A i \in DOMAIN results :
        ~is_completed(enrollment) =>
            /\ current_date = enrollment.enrollment_date
                                + DaysToComplete * MinutesPerDay
                  => /\ ~Raised(results[i])
                     /\ results[i].status \in {"progressed", "started"}
                     /\ results[i].days_overdue = 0
            /\ current_date = enrollment.enrollment_date
                                + (DaysToComplete + 1) * MinutesPerDay
                  => /\ ~Raised(results[i])
                     /\ results[i].status = "needs reminder"
                     /\ results[i].days_overdue = 1

C1_Witness ==
    /\ Len(results) > 0
    /\ ~is_completed(enrollment)
    /\ DaysToComplete > 0
    /\ enrollment.enrollment_date = datetime(1, 10 * 60 + 54)
    /\ current_date = enrollment.enrollment_date
                        + DaysToComplete * MinutesPerDay
    /\ results[1].status = "progressed"

\* C2: an enrollment with a completion timestamp set is classified Completed
\* with days_overdue = 0, whatever its lifecycle tag, schedule and as_of.
C2_CompletionTimestampIsCompleted ==
    \A i \in DOMAIN results :
        enrollment.completion_date # None =>
            /\ ~Raised(results[i])
            /\ results[i].status = "completed"
            /\ results[i].days_overdue = 0

\* the reference decision table of C3
DecisionTable(enr, sch, days_elapsed) ==
    IF is_completed(enr) THEN "completed"
    ELSE IF days_elapsed > sch.days_to_complete THEN "needs reminder"
    ELSE IF enr.status = "In Progress" THEN "progressed"
    ELSE "started"

\* C3: for every combination of lifecycle tag, start/completion timestamp
\* presence, days_elapsed and D, calculate_status returns the tag of the
\* ordered decision table (Completed, else NeedsReminder, else Progressed,
\* else Started).
C3_TagFollowsDecisionTable ==
    \A i \in DOMAIN results :
        /\ ~Raised(results[i])
        /\ results[i].status =
             DecisionTable(enrollment, schedule,
                           days_since_enrollment(enrollment, current_date))

\* C4: every status calculate_status produces has days_overdue >= 0, and
\* days_overdue = 0 when its tag is Completed, Progressed or Started.
C4_DaysOverdueNonNegative ==
    \A i \in DOMAIN results :
        ~Raised(results[i]) =>
            /\ results[i].days_overdue >= 0
            /\ results[i].status \in {"completed", "progressed", "started"}
                  => results[i].days_overdue = 0

\* a completion evaluated long after the deadline
C4_Witness ==
    /\ Len(results) > 0
    /\ ~Raised(results[1])
    /\ results[1].status = "completed"
    /\ days_since_enrollment(enrollment, current_date) > DaysToComplete + 5

C7_OverdueByCalendarDays ==
    \A i \in DOMAIN results :
        (~Raised(results[i]) /\ needs_reminder(results[i])
            /\ ~is_started(enrollment))
            => results[i].days_overdue = CalendarDays - DaysToComplete

\* C8: calculate_status returns a status and raises no error for every
\* lifecycle tag with the start and completion timestamps present or absent.
C8_Total ==
    \A i \in DOMAIN results : ~Raised(results[i])

UnscheduledCourse == "COURSE_999"

AggCourses == {"COURSE_001", "COURSE_002", UnscheduledCourse}

AggEnrollments ==
    {CourseEnrollment(c, st, datetime(0, 10 * 60 + 54), sd, cd) :
        c \in AggCourses, st \in EnrollmentStatus,
        sd \in StartDates, cd \in {None, Some(datetime(1, 10 * 60 + 54))}}

\* the lists of schedules a service is built from: two courses, one
\* course, and one course listed twice
ScheduleLists ==
    {<<CourseSchedule("COURSE_001", MaxDaysToComplete, 0),
       CourseSchedule("COURSE_002", MaxDaysToComplete, 1)>>,
     <<CourseSchedule("COURSE_001", MaxDaysToComplete, 0)>>,
     <<CourseSchedule("COURSE_001", MaxDaysToComplete, 0),
       CourseSchedule("COURSE_001", 0, 0)>>}

AggDates == {datetime(1, 0), datetime(MaxDay, 0)}

SeqsUpTo(S, n) == UNION {[1..k -> S] : k \in 0..n}

(***************************************************************************)
(* SpecAgg: the aggregation of one user's enrollments.                     *)
(***************************************************************************)
InitAgg ==
    /\ schedules \in ScheduleLists
    /\ schedules_map = ScheduleStatusService(schedules)
    /\ enrollments \in SeqsUpTo(AggEnrollments, MaxEnrollments)
    /\ current_date \in AggDates
    /\ statuses = None
    /\ user_summary = None
    /\ reminders = None
    /\ enrollment = None
    /\ schedule = None
    /\ now = 0
    /\ results = <<>>
    /\ NoTemplateCall
    /\ NoJobRun
    /\ NoApiCall

CalculateUserStatus ==
    /\ statuses = None
    /\ statuses' = Some(calculate_user_status(enrollments, current_date))
    /\ UNCHANGED <<templateVars, jobVars, emailVars, apiVars>>
    /\ UNCHANGED <<enrollment, schedule, current_date, now, results,
                   schedules, schedules_map, enrollments,
                   user_summary, reminders>>

GetCoursesNeedingReminder ==
    /\ reminders = None
    /\ reminders' = Some(get_courses_needing_reminder(enrollments, current_date))
    /\ UNCHANGED <<templateVars, jobVars, emailVars, apiVars>>
    /\ UNCHANGED <<enrollment, schedule, current_date, now, results,
                   schedules, schedules_map, enrollments,
                   statuses, user_summary>>

GetUserSummary ==
    /\ user_summary = None
    /\ user_summary' = Some(get_user_summary(enrollments, current_date))
    /\ UNCHANGED <<templateVars, jobVars, emailVars, apiVars>>
    /\ UNCHANGED <<enrollment, schedule, current_date, now, results,
                   schedules, schedules_map, enrollments,
                   statuses, reminders>>

NextAgg == CalculateUserStatus \/ GetCoursesNeedingReminder \/ GetUserSummary

SpecAgg == InitAgg /\ [][NextAgg]_vars

(***************************************************************************)
(* Claims on the aggregation, checked under SpecAgg.                       *)
(***************************************************************************)
\* the input enrollments whose course id has a schedule, in input order
Matched == SelectSeq(enrollments, LAMBDA e : e.course_id \in DOMAIN schedules_map)

\* C10: calculate_user_status raises no error and returns, in input order,
\* exactly one status for each input enrollment whose course id is in the
\* schedule set and none for the others.
C10_OneStatusPerMatchedEnrollment ==
    statuses # None =>
        /\ ~Raised(statuses[1])
        /\ Len(statuses[1].value) = Len(Matched)
        /\ \A i \in DOMAIN Matched :
              /\ statuses[1].value[i].enrollment = Matched[i]
              /\ statuses[1].value[i].course_id = Matched[i].course_id
              /\ statuses[1].value[i].schedule
                    = schedules_map[Matched[i].course_id]

C12_OnTrackEqualsInProgress ==
    (user_summary # None /\ ~Raised(user_summary[1])) =>
        user_summary[1].value.on_track = user_summary[1].value.in_progress

C12_Witness ==
    /\ user_summary # None
    /\ ~Raised(user_summary[1])
    /\ user_summary[1].value.in_progress = 1
    /\ user_summary[1].value.completed = 1
    /\ user_summary[1].value.on_track = 1

\* C13: what get_courses_needing_reminder returns is the sub-sequence of
\* the NeedsReminder entries of calculate_user_status for the same inputs,
\* and its length is the needs_reminder count of get_user_summary.
C13_RemindersAreTheNeedsReminderEntries ==
    (reminders # None /\ ~Raised(reminders[1])) =>
        /\ statuses # None =>
              /\ ~Raised(statuses[1])
              /\ reminders[1].value
                    = SelectSeq(statuses[1].value,
                                LAMBDA s : s.status = "needs reminder")
        /\ user_summary # None =>
              /\ ~Raised(user_summary[1])
              /\ Len(reminders[1].value)
                    = user_summary[1].value.needs_reminder

C13_Witness ==
    /\ reminders # None
    /\ statuses # None
    /\ user_summary # None
    /\ ~Raised(reminders[1])
    /\ Len(reminders[1].value) = 1
    /\ Len(statuses[1].value) = 2
    /\ statuses[1].value[1].status = "completed"
    /\ reminders[1].value[1] = statuses[1].value[2]

\* C30: every summary get_user_summary returns partitions the classified
\* courses: completed + in_progress + needs_reminder = total_courses, no
\* counter is negative, and total_courses is the length of what
\* calculate_user_status returns for the same inputs, at most the number
\* of input enrollments.
C30_SummaryPartitionsStatuses ==
    (user_summary # None /\ ~Raised(user_summary[1])) =>
        LET summary == user_summary[1].value
            all_statuses == calculate_user_status(enrollments, current_date)
        IN  /\ summary.completed + summary.in_progress
                  + summary.needs_reminder = summary.total_courses
            /\ summary.completed >= 0 /\ summary.in_progress >= 0
            /\ summary.needs_reminder >= 0 /\ summary.on_track >= 0
            /\ ~Raised(all_statuses)
            /\ summary.total_courses = Len(all_statuses.value)
            /\ statuses # None => statuses[1] = all_statuses
            /\ summary.total_courses <= Len(enrollments)

\* two enrollments, one of a course with no schedule, the other within
\* its deadline and tagged Started
C30_Witness ==
    /\ user_summary # None
    /\ ~Raised(user_summary[1])
    /\ Len(enrollments) = 2
    /\ user_summary[1].value.total_courses = 1
    /\ user_summary[1].value.in_progress = 1
    /\ statuses # None
    /\ statuses[1].value[1].status = "started"

(***************************************************************************)
(* The inputs of the templates.                                            *)
(***************************************************************************)
MaxCount == 1
MaxSummaries == 2

ManagerEmails == {"manager1@example.com", "manager2@example.com"}

TemplateUsers ==
    {User("U001", "Alice", "alice@example.com", "manager1@example.com",
          datetime(0, 0)),
     User("U002", "Bob", "bob@example.com", "manager2@example.com",
          datetime(0, 0))}

\* the members of ScheduleStatus and two values that are not members:
\* the None object and a tag the enumeration does not have
StatusValues == ScheduleStatus \cup {"None", "unknown"}

\* summary dicts with the keys a line reads, and one without the counts
SummaryDicts ==
    {[user_name |-> n, needs_reminder_count |-> r,
      completed_count |-> c, in_progress_count |-> p] :
        n \in {"Alice", "Bob"}, r \in 0..MaxCount,
        c \in {0, 1}, p \in {0, 1}}
    \cup {[user_name |-> "Test"]}

(***************************************************************************)
(* SpecTemplates: one call of EmailTemplateFactory.get_template and one    *)
(* call of ManagerSummaryTemplate.generate_body.                           *)
(***************************************************************************)
NoServiceCall ==
    /\ enrollment = None
    /\ schedule = None
    /\ current_date = 0
    /\ now = 0
    /\ results = <<>>
    /\ schedules = <<>>
    /\ schedules_map = ScheduleStatusService(schedules)
    /\ enrollments = <<>>
    /\ statuses = None
    /\ user_summary = None
    /\ reminders = None

InitTemplates ==
    NoServiceCall /\ NoTemplateCall /\ NoJobRun /\ NoApiCall

GetTemplate ==
    /\ template = None
    /\ \E st \in StatusValues, u \in TemplateUsers :
          /\ status_type' = st
          /\ user' = u
          /\ template' = Some(get_template(st, u))
    /\ UNCHANGED <<user_summaries, body>>
    /\ UNCHANGED <<serviceVars, jobVars, emailVars, apiVars>>

GenerateBody ==
    /\ body = None
    /\ \E m \in ManagerEmails,
          summaries \in SeqsUpTo(SummaryDicts, MaxSummaries) :
          /\ user_summaries' = summaries
          /\ body' = Some(manager_generate_body(get_manager_template(m),
                                                summaries))
    /\ UNCHANGED <<status_type, user, template>>
    /\ UNCHANGED <<serviceVars, jobVars, emailVars, apiVars>>

NextTemplates == GetTemplate \/ GenerateBody

SpecTemplates == InitTemplates /\ [][NextTemplates]_vars

(***************************************************************************)
(* Claims on the templates, checked under SpecTemplates.                   *)
(***************************************************************************)
\* the variant each member of ScheduleStatus is to get
VariantOf(status) ==
    CASE status = "needs reminder" -> "NeedsReminderTemplate"
      [] status = "progressed" -> "ProgressedTemplate"
      [] status = "started" -> "StartedTemplate"
      [] status = "completed" -> "CompletedTemplate"

\* C14: get_template gives each of the four status tags its own template
\* variant, two tags never sharing one, and gives any other status value
\* the NeedsReminder variant instead of raising.
C14_TemplatePerTagWithFallback ==
    /\ \A a, b \in ScheduleStatus, u \in TemplateUsers :
          a # b =>
            /\ get_template(a, u).class # get_template(b, u).class
            /\ generate_subject(get_template(a, u)).text
                 # generate_subject(get_template(b, u)).text
    /\ template # None =>
          /\ ~Raised(template[1])
          /\ template[1].user = user
          /\ status_type \in ScheduleStatus =>
                template[1].class = VariantOf(status_type)
          /\ status_type \notin ScheduleStatus =>
                template[1].class = "NeedsReminderTemplate"

\* get_template has been called with a value that is no member of
\* ScheduleStatus and has returned the NeedsReminder variant
C14_Witness ==
    /\ template # None
    /\ status_type \notin ScheduleStatus
    /\ ~Raised(template[1])
    /\ template[1].class = "NeedsReminderTemplate"

\* the dicts of user_summaries all have the keys a summary line reads
SummariesWellFormed ==
    \A i \in 1..Len(user_summaries) : MissingKey(user_summaries[i]) = ""

\* C15: the body of the manager summary has exactly one line per
\* team-member summary, in input order, with that member's counts; the
\* line is tagged [NEEDS ATTENTION] iff the member's needs-reminder count
\* is > 0 and [COMPLETED] otherwise.
C15_OneTaggedLinePerMember ==
    (body # None /\ SummariesWellFormed) =>
        /\ ~Raised(body[1])
        /\ LET lines == body[1].value.lines
           IN  /\ Len(lines) = Len(user_summaries)
               /\ \A i \in 1..Len(lines) :
                     LET summary == user_summaries[i]
                     IN  /\ lines[i].user_name = summary.user_name
                         /\ lines[i].completed = summary.completed_count
                         /\ lines[i].in_progress = summary.in_progress_count
                         /\ lines[i].needs_attention
                              = summary.needs_reminder_count
                         /\ lines[i].tag = "[NEEDS ATTENTION]"
                              <=> summary.needs_reminder_count > 0
                         /\ lines[i].tag = "[COMPLETED]"
                              <=> ~(summary.needs_reminder_count > 0)

\* a body of two lines for two different members, the first tagged
\* [COMPLETED] with completed courses, the second [NEEDS ATTENTION]
C15_Witness ==
    /\ body # None
    /\ SummariesWellFormed
    /\ Len(user_summaries) = 2
    /\ ~Raised(body[1])
    /\ user_summaries[1].user_name = "Bob"
    /\ user_summaries[2].user_name = "Alice"
    /\ user_summaries[1].completed_count = 0
    /\ body[1].value.lines[1].tag = "[COMPLETED]"
    /\ body[1].value.lines[2].tag = "[NEEDS ATTENTION]"

(***************************************************************************)
(* The inputs of the job.                                                  *)
(***************************************************************************)
MaxUsers == 2

JobUserIds == <<"U001", "U002", "U003">>

\* Alice and Carol report to the same manager
JobUsers ==
    {User("U001", "Alice", "alice@example.com", "manager1@example.com",
          datetime(0, 0)),
     User("U002", "Bob", "bob@example.com", "manager2@example.com",
          datetime(0, 0)),
     User("U003", "Carol", "carol@example.com", "manager1@example.com",
          datetime(0, 0))}

\* the users files: up to MaxUsers users, no user listed twice
UsersFiles ==
    {f \in SeqsUpTo(JobUsers, MaxUsers) :
        \A a, b \in DOMAIN f : a # b => f[a] # f[b]}

JobSchedules ==
    <<CourseSchedule("COURSE_001", MaxDaysToComplete, 0),
      CourseSchedule("COURSE_002", MaxDaysToComplete, 1)>>

JobEnrollment(course_id, status, completion_date) ==
    CourseEnrollment(course_id, status, datetime(0, 10 * 60 + 54), None,
                     completion_date)

\* the enrollment lists a user may have in the file: none; one course not
\* started; one completed and one in progress; two open courses; a course
\* without schedule; a Completed course without completion date
JobEnrollmentLists ==
    {<<>>,
     <<JobEnrollment("COURSE_001", "Enrolled", None)>>,
     <<JobEnrollment("COURSE_001", "Completed",
                     Some(datetime(1, 10 * 60 + 54))),
       JobEnrollment("COURSE_002", "In Progress", None)>>,
     <<JobEnrollment("COURSE_002", "In Progress", None),
       JobEnrollment("COURSE_001", "Enrolled", None)>>,
     <<JobEnrollment(UnscheduledCourse, "Enrolled", None)>>,
     <<JobEnrollment("COURSE_001", "Completed", None)>>}

\* the enrollments files: an entry for some of the user ids, in id order
EnrollmentsFiles ==
    {LET ids == SelectSeq(JobUserIds, LAMBDA id : id \in DOMAIN f)
     IN  [k \in 1..Len(ids) |->
            [user_id |-> ids[k], enrollments |-> f[ids[k]]]] :
        f \in UNION {[S -> JobEnrollmentLists] :
                        S \in SUBSET {JobUserIds[k] : k \in DOMAIN JobUserIds}}}

(***************************************************************************)
(* SpecJob: one run() of a newly constructed DailyReminderJob, one loop    *)
(* pass per step.                                                          *)
(***************************************************************************)
\* a newly constructed DailyReminderJob with its EmailService, and the
\* variables no run uses
JobConstructed ==
    /\ users = <<>>
    /\ enrollments_by_user = <<>>
    /\ schedules = <<>>
    /\ schedules_map = ScheduleStatusService(schedules)
    /\ users_needing_reminders = <<>>
    /\ manager_summaries = <<>>
    /\ email_stats = [users_emailed |-> 0, managers_emailed |-> 0]
    /\ sent_emails = <<>>
    /\ stats = None
    /\ pc = "new"
    /\ user_pos = 0
    /\ reminder_pos = 0
    /\ manager_pos = 0
    /\ NoEmailCall
    /\ enrollment = None
    /\ schedule = None
    /\ now = 0
    /\ results = <<>>
    /\ enrollments = <<>>
    /\ statuses = None
    /\ user_summary = None
    /\ reminders = None
    /\ NoTemplateCall

InitJob ==
    /\ users_file \in UsersFiles
    /\ enrollments_file \in EnrollmentsFiles
    /\ current_date \in AggDates
    /\ email_log = LogFile("missing", <<>>)
    /\ JobConstructed
    /\ NoApiCall

\* run(): load_data(), then process_reminders up to its loop over the users
LoadData ==
    /\ pc = "new"
    /\ users' = users_file
    /\ schedules' = JobSchedules
    /\ enrollments_by_user'
          = load_enrollments(enrollments_by_user, enrollments_file)
    /\ schedules_map' = ScheduleStatusService(schedules')
    /\ users_needing_reminders' = <<>>
    /\ manager_summaries' = <<>>
    /\ email_stats' = [users_emailed |-> 0, managers_emailed |-> 0]
    /\ user_pos' = 0
    /\ reminder_pos' = 0
    /\ manager_pos' = 0
    /\ pc' = "process_reminders"
    /\ UNCHANGED <<users_file, enrollments_file, email_log, sent_emails,
                   stats>>
    /\ UNCHANGED <<enrollment, schedule, current_date, now, results,
                   enrollments, statuses, user_summary, reminders>>
    /\ UNCHANGED <<templateVars, emailVars, apiVars>>

\* one pass of the loop over self.users; an exception leaves run()
ProcessUser ==
    /\ pc = "process_reminders"
    /\ user_pos < Len(users)
    /\ LET r == process_user(users[user_pos + 1], enrollments_by_user,
                             current_date, users_needing_reminders,
                             manager_summaries)
       IN  IF Raised(r)
           THEN /\ pc' = "raised"
                /\ stats' = Some(r)
                /\ UNCHANGED <<users_needing_reminders, manager_summaries,
                               user_pos>>
           ELSE /\ users_needing_reminders'
                      = r.value.users_needing_reminders
                /\ manager_summaries' = r.value.manager_summaries
                /\ user_pos' = user_pos + 1
                /\ UNCHANGED <<pc, stats>>
    /\ UNCHANGED <<users_file, enrollments_file, email_log, users,
                   enrollments_by_user, email_stats, sent_emails,
                   reminder_pos, manager_pos>>
    /\ UNCHANGED <<serviceVars, templateVars, emailVars, apiVars>>

\* one pass of the loop over users_needing_reminders
SendUserReminder ==
    /\ pc = "process_reminders"
    /\ user_pos = Len(users)
    /\ reminder_pos < Len(users_needing_reminders)
    /\ LET entry == users_needing_reminders[reminder_pos + 1]
           r == send_user_reminder(sent_emails, entry.user, entry.courses,
                                   "needs reminder")
       IN  IF Raised(r.result)
           THEN /\ pc' = "raised"
                /\ stats' = Some(r.result)
                /\ UNCHANGED <<sent_emails, email_stats, reminder_pos>>
           ELSE /\ sent_emails' = r.sent_emails
                /\ email_stats'
                      = IF r.result.value
                        THEN [email_stats EXCEPT !.users_emailed = @ + 1]
                        ELSE email_stats
                /\ reminder_pos' = reminder_pos + 1
                /\ UNCHANGED <<pc, stats>>
    /\ UNCHANGED <<users_file, enrollments_file, email_log, users,
                   enrollments_by_user, users_needing_reminders,
                   manager_summaries, user_pos, manager_pos>>
    /\ UNCHANGED <<serviceVars, templateVars, emailVars, apiVars>>

\* one pass of the loop over manager_summaries.items()
SendManagerSummary ==
    /\ pc = "process_reminders"
    /\ user_pos = Len(users)
    /\ reminder_pos = Len(users_needing_reminders)
    /\ manager_pos < Len(manager_summaries)
    /\ LET item == manager_summaries[manager_pos + 1]
           r == send_manager_summary(sent_emails, item.manager_email,
                                     item.summaries)
       IN  IF Raised(r.result)
           THEN /\ pc' = "raised"
                /\ stats' = Some(r.result)
                /\ UNCHANGED <<sent_emails, email_stats, manager_pos>>
           ELSE /\ sent_emails' = r.sent_emails
                /\ email_stats'
                      = IF r.result.value
                        THEN [email_stats EXCEPT !.managers_emailed = @ + 1]
                        ELSE email_stats
                /\ manager_pos' = manager_pos + 1
                /\ UNCHANGED <<pc, stats>>
    /\ UNCHANGED <<users_file, enrollments_file, email_log, users,
                   enrollments_by_user, users_needing_reminders,
                   manager_summaries, user_pos, reminder_pos>>
    /\ UNCHANGED <<serviceVars, templateVars, emailVars, apiVars>>

\* self.email_service.save_email_log(), whatever the file system does
SaveEmailLog ==
    /\ pc = "process_reminders"
    /\ user_pos = Len(users)
    /\ reminder_pos = Len(users_needing_reminders)
    /\ manager_pos = Len(manager_summaries)
    /\ \E write \in WriteOutcomes :
          LET r == save_email_log(email_log, sent_emails, write)
          IN  /\ email_log' = r.log_file
              /\ log_error' = r.error
    /\ log_saves' = log_saves + 1
    /\ pc' = "saved"
    /\ UNCHANGED <<users_file, enrollments_file, users, enrollments_by_user,
                   users_needing_reminders, manager_summaries, email_stats,
                   sent_emails, stats, user_pos, reminder_pos, manager_pos>>
    /\ UNCHANGED <<send_results, email_statistics>>
    /\ UNCHANGED <<serviceVars, templateVars, apiVars>>

\* process_reminders compiles job_stats and run() returns them
ReturnStats ==
    /\ pc = "saved"
    /\ stats' = Some(Return(job_stats(current_date, users,
                                      users_needing_reminders, email_stats)))
    /\ pc' = "returned"
    /\ UNCHANGED <<users_file, enrollments_file, email_log, users,
                   enrollments_by_user, users_needing_reminders,
                   manager_summaries, email_stats, sent_emails,
                   user_pos, reminder_pos, manager_pos>>
    /\ UNCHANGED <<serviceVars, templateVars, emailVars, apiVars>>

NextJob ==
    \/ LoadData
    \/ ProcessUser
    \/ SendUserReminder
    \/ SendManagerSummary
    \/ SaveEmailLog
    \/ ReturnStats

SpecJob == InitJob /\ [][NextJob]_vars

(***************************************************************************)
(* Claims on the job, checked under SpecJob.                               *)
(***************************************************************************)
\* the enrollments the enrollments file gives a user (its last entry for
\* the user id), none if it has no entry
FileEnrollments(u) ==
    LET ks == {k \in DOMAIN enrollments_file :
                  enrollments_file[k].user_id = u.user_id}
    IN  IF ks = {} THEN <<>>
        ELSE enrollments_file[CHOOSE k \in ks : \A j \in ks : j <= k]
                 .enrollments

HasEnrollments(u) == FileEnrollments(u) # <<>>

RunEnded == pc \in {"returned", "raised"}

\* the users of the file with at least one enrollment who report to m
ReportsWithEnrollments(m) ==
    SelectSeq(users_file,
              LAMBDA u : HasEnrollments(u) /\ u.manager_email = m)

\* the rows collected under the key m, none if m is no key
ManagerRows(m) ==
    LET ks == {k \in DOMAIN manager_summaries :
                  manager_summaries[k].manager_email = m}
    IN  IF ks = {} THEN <<>>
        ELSE manager_summaries[CHOOSE k \in ks : TRUE].summaries

\* the records of the given type sent to the given address
RecordsTo(type, address) ==
    SelectSeq(sent_emails, LAMBDA e : e.type = type /\ e.to = address)

\* what the run is to have collected and sent for the manager m
ManagerServed(m) ==
    LET expected == ReportsWithEnrollments(m)
        rows == ManagerRows(m)
        records == RecordsTo("manager_summary", m)
    IN  /\ Len(rows) = Len(expected)
        /\ \A k \in DOMAIN rows :
              /\ rows[k].user_name = expected[k].name
              /\ rows[k].user_email = expected[k].email
        /\ Len(records) = IF expected = <<>> THEN 0 ELSE 1
        /\ \A k \in DOMAIN records :
              records[k].user_count = Len(expected)

\* C16: when a run of process_reminders has ended, every user with at
\* least one enrollment has exactly one summary row, in the list of their
\* own manager and in user order, and exactly one manager-summary record
\* has been appended per manager of such users, its user_count the number
\* of that manager's rows.
C16_OneRowPerUserOneRecordPerManager ==
    RunEnded => \A m \in ManagerEmails : ManagerServed(m)

\* the course ids the classifier tags "needs reminder" among the user's
\* enrollments, in enrollment order
NeedsReminderCourses(u) ==
    LET classified == calculate_user_status(FileEnrollments(u), current_date)
    IN  IF Raised(classified) THEN <<>>
        ELSE LET needs == SelectSeq(classified.value, needs_reminder)
             IN  [k \in 1..Len(needs) |-> needs[k].course_id]

\* C17: when a run of process_reminders has ended, a user has a reminder
\* record iff one of their enrollments is classified NeedsReminder; the
\* user then has exactly one, addressed to the user's email, listing
\* exactly the user's NeedsReminder courses in enrollment order.
C17_ReminderIffNeedsReminder ==
    RunEnded =>
        \A k \in DOMAIN users_file :
            LET u == users_file[k]
                records == RecordsTo("user_reminder", u.email)
            IN  /\ Len(records) = IF NeedsReminderCourses(u) = <<>> THEN 0
                                  ELSE 1
                /\ \A j \in DOMAIN records :
                      records[j].course_ids = NeedsReminderCourses(u)

\* the loop over a list of users, from the given collections
RECURSIVE ProcessAll(_, _, _)
ProcessAll(us, needing, summaries_by_manager) ==
    IF us = <<>>
    THEN Return([users_needing_reminders |-> needing,
                 manager_summaries |-> summaries_by_manager])
    ELSE LET r == process_user(Head(us), enrollments_by_user, current_date,
                               needing, summaries_by_manager)
         IN  IF Raised(r) THEN r
             ELSE ProcessAll(Tail(us), r.value.users_needing_reminders,
                             r.value.manager_summaries)

\* the loop over the users run without the users that have no enrollments
WithoutSkipped == ProcessAll(SelectSeq(users, HasEnrollments), <<>>, <<>>)

UserLoopDone ==
    \/ pc = "process_reminders" /\ user_pos = Len(users)
    \/ pc \in {"saved", "returned"}

\* C18: a user with zero enrollments is skipped without error.  Once the
\* data are loaded: no reminder record, no summary row and no entry of
\* users_needing_reminders is theirs; a manager whose reports all have zero
\* enrollments has no list and no summary record; a run that raises does
\* so on a user with enrollments; and what the run collected is what it
\* collects for the other users alone.
C18_ZeroEnrollmentsSkipped ==
    pc # "new" =>
        /\ \A k \in DOMAIN users :
              ~HasEnrollments(users[k]) =>
                /\ RecordsTo("user_reminder", users[k].email) = <<>>
                /\ \A j \in DOMAIN users_needing_reminders :
                      users_needing_reminders[j].user # users[k]
                /\ \A j \in DOMAIN manager_summaries :
                      \A i \in DOMAIN manager_summaries[j].summaries :
                          manager_summaries[j].summaries[i].user_email
                              # users[k].email
        /\ \A m \in ManagerEmails :
              ReportsWithEnrollments(m) = <<>> =>
                /\ ManagerRows(m) = <<>>
                /\ \A j \in DOMAIN manager_summaries :
                      manager_summaries[j].manager_email # m
                /\ RecordsTo("manager_summary", m) = <<>>
        /\ pc = "raised" =>
              /\ HasEnrollments(users[user_pos + 1])
              /\ WithoutSkipped = stats[1]
        /\ UserLoopDone =>
              /\ ~Raised(WithoutSkipped)
              /\ WithoutSkipped.value.users_needing_reminders
                    = users_needing_reminders
              /\ WithoutSkipped.value.manager_summaries = manager_summaries

\* a run has returned in which the first user, with no enrollments, was
\* skipped and got nothing, that user's manager got no summary, and the
\* second user got a reminder
C18_Witness ==
    /\ pc = "returned"
    /\ Len(users) = 2
    /\ ~HasEnrollments(users[1])
    /\ users[1].manager_email # users[2].manager_email
    /\ RecordsTo("manager_summary", users[1].manager_email) = <<>>
    /\ RecordsTo("user_reminder", users[2].email) # <<>>
    /\ Len(sent_emails) = 2

\* C19: the users_processed counter a run returns is the number of users
\* with at least one enrollment; users skipped for having none are not
\* counted.
C19_UsersProcessedCountsEnrolled ==
    pc = "returned" =>
        stats[1].value.users_processed
            = Len(SelectSeq(users_file, HasEnrollments))

\* the records of the given type in sent_emails
RecordsOfType(type) == SelectSeq(sent_emails, LAMBDA e : e.type = type)

\* C20: the counters count one success per record appended in the run:
\* while it runs, users_emailed and managers_emailed are the numbers of
\* user_reminder and manager_summary records appended; in the statistics
\* returned, reminder_emails_sent = users_needing_reminders = the number
\* of user_reminder records, manager_summaries_sent = the number of
\* manager_summary records, and total_emails_sent is their sum and the
\* number of records the run added to sent_emails.
C20_CountersCountRecords ==
    /\ pc # "new" =>
          /\ email_stats.users_emailed = Len(RecordsOfType("user_reminder"))
          /\ email_stats.managers_emailed
                = Len(RecordsOfType("manager_summary"))
    /\ pc = "returned" =>
          LET s == stats[1].value
          IN  /\ s.reminder_emails_sent = s.users_needing_reminders
              /\ s.reminder_emails_sent = Len(RecordsOfType("user_reminder"))
              /\ s.manager_summaries_sent
                    = Len(RecordsOfType("manager_summary"))
              /\ s.total_emails_sent
                    = s.reminder_emails_sent + s.manager_summaries_sent
              /\ s.total_emails_sent = Len(sent_emails)

\* a run has returned that sent two reminders and one manager summary
C20_Witness ==
    /\ pc = "returned"
    /\ stats[1].value.reminder_emails_sent = 2
    /\ stats[1].value.manager_summaries_sent = 1
    /\ stats[1].value.total_emails_sent = 3
    /\ Len(sent_emails) = 3

\* the data load_data loads from the files
DataLoaded ==
    /\ users = users_file
    /\ schedules = JobSchedules
    /\ schedules_map = ScheduleStatusService(JobSchedules)
    /\ \A k \in DOMAIN users_file :
          enrollments_of(enrollments_by_user, users_file[k].user_id)
              = FileEnrollments(users_file[k])

\* every reminder and every manager summary of the run has been composed
AllComposed ==
    /\ user_pos = Len(users)
    /\ reminder_pos = Len(users_needing_reminders)
    /\ manager_pos = Len(manager_summaries)
    /\ Len(sent_emails)
          = Len(users_needing_reminders) + Len(manager_summaries)

\* C23: within a run the log is written exactly once, after every user
\* reminder and every manager summary of the run has been composed, never
\* before or between compositions; and all data are loaded before the
\* first classification.
C23_OneLogWriteAfterComposition ==
    /\ pc = "new" =>
          /\ log_saves = 0
          /\ user_pos = 0
          /\ users_needing_reminders = <<>>
          /\ manager_summaries = <<>>
    /\ pc # "new" => DataLoaded
    /\ pc = "process_reminders" => log_saves = 0
    /\ log_saves > 0 => AllComposed
    /\ RunEnded => log_saves = 1

\* classifying the user's enrollments raises
ClassificationFails(u) ==
    Raised(calculate_user_status(FileEnrollments(u), current_date))

\* C24: a failure to classify one user is isolated to that user: the run
\* ends by returning its statistics, never by raising, and every user
\* whose classification succeeds has their summary row and, if a course of
\* theirs needs a reminder, their reminder record.
C24_FailureIsolatedToUser ==
    RunEnded =>
        /\ pc = "returned"
        /\ ~Raised(stats[1])
        /\ \A k \in DOMAIN users_file :
              LET u == users_file[k]
              IN  (HasEnrollments(u) /\ ~ClassificationFails(u)) =>
                    /\ \E j \in DOMAIN ManagerRows(u.manager_email) :
                          ManagerRows(u.manager_email)[j].user_email
                              = u.email
                    /\ RecordsTo("manager_summary", u.manager_email) # <<>>
                    /\ NeedsReminderCourses(u) # <<>> =>
                          RecordsTo("user_reminder", u.email) # <<>>

\* C25: a failure to write the log is surfaced to the caller of run(): a
\* run in which save_email_log met an error ends by raising, not by
\* returning statistics.
C25_LogFailureSurfaced ==
    (RunEnded /\ log_error # None) => pc = "raised"

(***************************************************************************)
(* The inputs of the EmailService.                                         *)
(***************************************************************************)
MaxSends == 2
MaxSaves == 2

EmailCourse(course_id) ==
    CourseScheduleStatus(course_id, "needs reminder", None,
                         CourseSchedule(course_id, MaxDaysToComplete, 0),
                         5, Message("Not started", 5))

EmailCourseLists ==
    {<<>>, <<EmailCourse("COURSE_001")>>,
     <<EmailCourse("COURSE_002"), EmailCourse("COURSE_001")>>}

\* a member of ScheduleStatus and the None object
EmailStatuses == {"needs reminder", "None"}

\* no summary, a summary row as process_reminders builds it, and a dict
\* with a name only
EmailSummaryLists ==
    {<<>>,
     <<[user_name |-> "Alice", user_email |-> "alice@example.com",
        completed_count |-> 1, in_progress_count |-> 0,
        needs_reminder_count |-> 1, total_courses |-> 2]>>,
     <<[user_name |-> "Test"]>>}

\* a record an earlier process left in the log
OldRecord ==
    [timestamp |-> 0, to |-> "carol@example.com",
     from |-> "noreply@learningplatform.com", type |-> "manager_summary",
     user_count |-> 1]

\* what the log file may hold when the service is constructed
PriorLogs ==
    {LogFile("missing", <<>>), LogFile("list", <<>>),
     LogFile("list", <<OldRecord>>), LogFile("invalid", <<OldRecord>>),
     LogFile("object", <<>>)}

(***************************************************************************)
(* SpecEmail: calls on one EmailService, in any order.                     *)
(***************************************************************************)
InitEmail ==
    /\ email_log \in PriorLogs
    /\ users_file = <<>>
    /\ enrollments_file = <<>>
    /\ current_date = 0
    /\ JobConstructed
    /\ NoApiCall

SendUserReminderCall ==
    /\ Len(send_results) < MaxSends
    /\ \E u \in TemplateUsers, courses \in EmailCourseLists,
          status \in EmailStatuses :
          LET r == send_user_reminder(sent_emails, u, courses, status)
          IN  /\ sent_emails' = IF Raised(r.result) THEN sent_emails
                                ELSE r.sent_emails
              /\ send_results' = Append(send_results,
                     [call |-> "send_user_reminder", to |-> u.email,
                      empty |-> courses = <<>>, result |-> r.result])
    /\ email_statistics' = None
    /\ UNCHANGED <<log_saves, log_error, email_log>>
    /\ UNCHANGED <<users_file, enrollments_file, users, enrollments_by_user,
                   users_needing_reminders, manager_summaries, email_stats,
                   stats, pc, user_pos, reminder_pos, manager_pos>>
    /\ UNCHANGED <<serviceVars, templateVars, apiVars>>

SendManagerSummaryCall ==
    /\ Len(send_results) < MaxSends
    /\ \E m \in ManagerEmails, summaries \in EmailSummaryLists :
          LET r == send_manager_summary(sent_emails, m, summaries)
          IN  /\ sent_emails' = IF Raised(r.result) THEN sent_emails
                                ELSE r.sent_emails
              /\ send_results' = Append(send_results,
                     [call |-> "send_manager_summary", to |-> m,
                      empty |-> summaries = <<>>, result |-> r.result])
    /\ email_statistics' = None
    /\ UNCHANGED <<log_saves, log_error, email_log>>
    /\ UNCHANGED <<users_file, enrollments_file, users, enrollments_by_user,
                   users_needing_reminders, manager_summaries, email_stats,
                   stats, pc, user_pos, reminder_pos, manager_pos>>
    /\ UNCHANGED <<serviceVars, templateVars, apiVars>>

SaveEmailLogCall ==
    /\ log_saves < MaxSaves
    /\ \E write \in WriteOutcomes :
          LET r == save_email_log(email_log, sent_emails, write)
          IN  /\ email_log' = r.log_file
              /\ log_error' = r.error
    /\ log_saves' = log_saves + 1
    /\ UNCHANGED <<send_results, email_statistics, sent_emails>>
    /\ UNCHANGED <<users_file, enrollments_file, users, enrollments_by_user,
                   users_needing_reminders, manager_summaries, email_stats,
                   stats, pc, user_pos, reminder_pos, manager_pos>>
    /\ UNCHANGED <<serviceVars, templateVars, apiVars>>

GetEmailStatisticsCall ==
    /\ email_statistics = None
    /\ email_statistics' = Some(get_email_statistics(sent_emails))
    /\ UNCHANGED <<log_saves, log_error, send_results, email_log,
                   sent_emails>>
    /\ UNCHANGED <<users_file, enrollments_file, users, enrollments_by_user,
                   users_needing_reminders, manager_summaries, email_stats,
                   stats, pc, user_pos, reminder_pos, manager_pos>>
    /\ UNCHANGED <<serviceVars, templateVars, apiVars>>

NextEmail ==
    \/ SendUserReminderCall
    \/ SendManagerSummaryCall
    \/ SaveEmailLogCall
    \/ GetEmailStatisticsCall

SpecEmail == InitEmail /\ [][NextEmail]_vars

(***************************************************************************)
(* Claims on the EmailService, checked under SpecEmail.                    *)
(***************************************************************************)
\* C21: a first save_email_log of a service that reports no error leaves
\* the log holding all the entries it held before, unchanged and in order,
\* followed by the records sent, whatever the log file held before.
C21_SaveAppendsToPriorLog ==
    [][(log_saves = 0 /\ log_saves' = 1 /\ log_error' = None) =>
          /\ email_log'.kind = "list"
          /\ email_log'.entries = email_log.entries \o sent_emails]_vars

\* the send calls made so far that returned True, in call order
Successes ==
    SelectSeq(send_results,
              LAMBDA r : ~Raised(r.result) /\ r.result.value = TRUE)

SuccessesOf(call) == SelectSeq(Successes, LAMBDA r : r.call = call)

ReuseUser(user_id) == CHOOSE u \in JobUsers : u.user_id = user_id

ReuseUsersFiles ==
    {<<ReuseUser("U001"), ReuseUser("U002")>>, <<ReuseUser("U001")>>}

\* U001 has no entry or one open course; U002 has no entry, one open
\* course or a Completed course without completion date
ReuseEnrollmentsFiles ==
    {e1 \o e2 :
        e1 \in {<<>>,
                <<[user_id |-> "U001", enrollments |->
                     <<JobEnrollment("COURSE_001", "Enrolled", None)>>]>>},
        e2 \in {<<>>,
                <<[user_id |-> "U002", enrollments |->
                     <<JobEnrollment("COURSE_001", "Enrolled", None)>>]>>,
                <<[user_id |-> "U002", enrollments |->
                     <<JobEnrollment("COURSE_001", "Completed", None)>>]>>}}

InitReuse ==
    /\ users_file \in ReuseUsersFiles
    /\ enrollments_file \in ReuseEnrollmentsFiles
    /\ current_date \in AggDates
    /\ email_log = LogFile("missing", <<>>)
    /\ JobConstructed
    /\ NoApiCall

\* the caller of run() gets its result; the files are edited, a day passes
\* and run() is called on the same job again
RunAgain ==
    /\ pc \in {"returned", "raised"}
    /\ now < MaxNow
    /\ now' = now + 1
    /\ users_file' \in ReuseUsersFiles
    /\ enrollments_file' \in ReuseEnrollmentsFiles
    /\ stats' = None
    /\ pc' = "new"
    /\ UNCHANGED <<email_log, users, enrollments_by_user,
                   users_needing_reminders, manager_summaries, email_stats,
                   sent_emails, user_pos, reminder_pos, manager_pos>>
    /\ UNCHANGED <<enrollment, schedule, current_date, results, schedules,
                   schedules_map, enrollments, statuses, user_summary,
                   reminders>>
    /\ UNCHANGED <<templateVars, emailVars, apiVars>>

NextReuse == NextJob \/ RunAgain

SpecReuse == InitReuse /\ [][NextReuse]_vars

(***************************************************************************)
(* Claims on successive runs, checked under SpecReuse.                     *)
(***************************************************************************)
\* the records composed in the current run: those stamped with its day
RunRecords == SelectSeq(sent_emails, LAMBDA e : e.timestamp = now)

\* the entries save_email_log finds in the log
ExistingLogs == IF email_log.kind = "list" THEN email_log.entries ELSE <<>>

\* C22: in every run, a save of the log that reports no error appends to
\* the entries found exactly the records composed in that run, each once,
\* and no record composed in an earlier run of the same job.
C22_RunAppendsItsOwnRecords ==
    [][(pc = "process_reminders" /\ pc' = "saved" /\ log_error' = None) =>
          email_log'.entries = ExistingLogs \o RunRecords]_vars

\* the loop over the users for a given enrollments_by_user
RECURSIVE ProcessAllWith(_, _, _, _)
ProcessAllWith(us, by_user, needing, summaries_by_manager) ==
    IF us = <<>>
    THEN Return([users_needing_reminders |-> needing,
                 manager_summaries |-> summaries_by_manager])
    ELSE LET r == process_user(Head(us), by_user, current_date,
                               needing, summaries_by_manager)
         IN  IF Raised(r) THEN r
             ELSE ProcessAllWith(Tail(us), by_user,
                                 r.value.users_needing_reminders,
                                 r.value.manager_summaries)

\* what run() of a newly constructed job gives on the current files: the
\* exception of the first user that fails, or the statistics, one e-mail
\* per user needing reminders and one per manager with rows
FreshRun ==
    LET collected == ProcessAllWith(users_file,
                         load_enrollments(<<>>, enrollments_file),
                         <<>>, <<>>)
    IN  IF Raised(collected) THEN collected
        ELSE Return(job_stats(current_date, users_file,
                 collected.value.users_needing_reminders,
                 [users_emailed |->
                      Len(collected.value.users_needing_reminders),
                  managers_emailed |->
                      Len(collected.value.manager_summaries)]))

\* C27: a run on a reused job classifies exactly the data loaded for that
\* run: a user with no enrollments in the current enrollments file has
\* none in the run, whatever an earlier load held, and the run ends as the
\* run of a newly constructed job on the same files and as-of date does,
\* with the same statistics.
C27_RunIndependentOfEarlierRuns ==
    /\ pc # "new" =>
          \A k \in DOMAIN users :
              enrollments_of(enrollments_by_user, users[k].user_id)
                  = FileEnrollments(users[k])
    /\ RunEnded => stats[1] = FreshRun

(***************************************************************************)
(* SpecLifecycle: one enrollment evaluated again and again while its       *)
(* as-of date moves on and its lifecycle advances; the enrollment date     *)
(* and the schedule stay as they are.                                      *)
(***************************************************************************)
\* the order of the lifecycle: Enrolled, In Progress, Completed
LifecycleRank(status) ==
    CASE status = "Enrolled" -> 0
      [] status = "In Progress" -> 1
      [] status = "Completed" -> 2

\* the days an evaluation is made on
MaxLifecycleDay == 3

\* midnight and 13:00 of each day: before and after the time of day of
\* an enrollment made at 10:54
LifecycleDates ==
    {datetime(d, t) : d \in 0..MaxLifecycleDay, t \in {0, 13 * 60}}

\* the record at the first evaluation: no completion date is written
\* before the status is Completed
InitLifecycle ==
    /\ InitEval
    /\ enrollment.status # "Completed" => enrollment.completion_date = None
    /\ current_date \in LifecycleDates

\* a later evaluation is made as of a later date
AdvanceAsOf ==
    /\ \E date \in LifecycleDates :
          /\ date > current_date
          /\ current_date' = date
    /\ UNCHANGED <<templateVars, jobVars, emailVars, apiVars>>
    /\ UNCHANGED <<enrollment, schedule, now, results, schedules,
                   schedules_map, enrollments, statuses, user_summary,
                   reminders>>

\* the enrollment record moves forward: its status to a later one, its
\* start date from None to a date, its completion date written when the
\* status becomes Completed (the record may still lack it)
AdvanceLifecycle ==
    /\ \E st \in EnrollmentStatus, sd \in StartDates, cd \in CompletionDates :
          /\ LifecycleRank(st) >= LifecycleRank(enrollment.status)
          /\ enrollment.start_date # None => sd = enrollment.start_date
          /\ (st = enrollment.status \/ st # "Completed")
                => cd = enrollment.completion_date
          /\ enrollment' = CourseEnrollment(enrollment.course_id, st,
                               enrollment.enrollment_date, sd, cd)
    /\ enrollment' # enrollment
    /\ enrollments' = <<enrollment'>>
    /\ UNCHANGED <<templateVars, jobVars, emailVars, apiVars>>
    /\ UNCHANGED <<schedule, current_date, now, results, schedules,
                   schedules_map, statuses, user_summary, reminders>>

NextLifecycle == CalculateStatus \/ AdvanceAsOf \/ AdvanceLifecycle

SpecLifecycle == InitLifecycle /\ [][NextLifecycle]_vars

(***************************************************************************)
(* Claims on successive evaluations, checked under SpecLifecycle.          *)
(***************************************************************************)
\* the moves of the tag between an evaluation and a later one
TagMoves ==
    {<<t, t>> : t \in ScheduleStatus}
        \cup {<<"started", "progressed">>}
        \cup {<<t, "needs reminder">> : t \in {"started", "progressed"}}
        \cup {<<t, "completed">> :
                 t \in {"started", "progressed", "needs reminder"}}

\* C26: of two successive evaluations of one enrollment, the later one as
\* of a date not earlier and with a lifecycle not behind, the tags are a
\* move of TagMoves: after a Completed tag every later evaluation returns
\* Completed, and after a NeedsReminder tag none returns Started or
\* Progressed.
C26_TagOnlyAdvances ==
    \A i, j \in DOMAIN results :
        (i < j /\ ~Raised(results[i])) =>
            /\ ~Raised(results[j]) =>
                  <<results[i].status, results[j].status>> \in TagMoves
            /\ results[i].status = "completed" =>
                  (~Raised(results[j]) /\ results[j].status = "completed")

\* an overdue enrollment tagged NeedsReminder is completed and tagged
\* Completed in the next evaluation
C26_Witness ==
    /\ Len(results) = 2
    /\ ~Raised(results[1]) /\ ~Raised(results[2])
    /\ results[1].status = "needs reminder"
    /\ results[2].status = "completed"
    /\ results[1].enrollment.status = "Enrolled"

(***************************************************************************)
(* api/app.py: the status and summary endpoints of a user.                 *)
(***************************************************************************)
\* what a view function returns: jsonify(json) with a status code
Response(status_code, json) == [status_code |-> status_code, json |-> json]

\* datetime.isoformat(): the text of a datetime
isoformat(t) == [isoformat |-> t]

\* `x.isoformat() if x else None`
isoformat_or_None(x) == IF x = None THEN "None" ELSE isoformat(x[1])

\* one entry of the list get_user_status builds from a status
status_entry(s) ==
    [course_id |-> s.course_id,
     status |-> s.status,
     days_overdue |-> s.days_overdue,
     message |-> s.message,
     enrollment |->
         [course_id |-> s.enrollment.course_id,
          status |-> s.enrollment.status,
          enrollment_date |-> isoformat(s.enrollment.enrollment_date),
          start_date |-> isoformat_or_None(s.enrollment.start_date),
          completion_date |->
              isoformat_or_None(s.enrollment.completion_date)],
     schedule |-> [days_to_complete |-> s.schedule.days_to_complete,
                   batch |-> s.schedule.batch]]

\* get_user_status without the check for no enrollments
api_get_user_status_unchecked(data, user_id, date) ==
    LET enrs == enrollments_of(data, user_id)
        all_statuses == calculate_user_status(enrs, date)
    IN  IF Raised(all_statuses) THEN all_statuses
        ELSE Return(Response(200,
                 [i \in DOMAIN all_statuses.value |->
                     status_entry(all_statuses.value[i])]))

\* GET /api/users/<user_id>/status, answered at the date datetime.now()
\* gives; an exception of the service leaves the view function
api_get_user_status(data, user_id, date) ==
    LET enrs == enrollments_of(data, user_id)
    IN  IF enrs = <<>>
        THEN Return(Response(404, [error |-> "No enrollments found"]))
        ELSE LET all_statuses == calculate_user_status(enrs, date)
             IN  IF Raised(all_statuses) THEN all_statuses
                 ELSE Return(Response(200,
                          [i \in DOMAIN all_statuses.value |->
                              status_entry(all_statuses.value[i])]))

\* GET /api/users/<user_id>/summary
api_get_user_summary(data, user_id, date) ==
    LET enrs == enrollments_of(data, user_id)
    IN  IF enrs = <<>>
        THEN Return(Response(404, [error |-> "No enrollments found"]))
        ELSE LET summary == get_user_summary(enrs, date)
             IN  IF Raised(summary) THEN summary
                 ELSE Return(Response(200, summary.value))

(***************************************************************************)
(* The inputs of the API.                                                  *)
(***************************************************************************)
MaxRequests == 2

\* U003 is in no data file
ApiUserIds == {"U001", "U002", "U003"}

ApiEnrollment(course_id, status, completion_date) ==
    CourseEnrollment(course_id, status, datetime(0, 10 * 60 + 54), None,
                     completion_date)

\* the lists of enrollments the enrollments file gives a user: none, an
\* open course, a completed course with and without its date, a course
\* with no schedule, and two courses
ApiEnrollmentLists ==
    {<<>>,
     <<ApiEnrollment("COURSE_001", "Enrolled", None)>>,
     <<ApiEnrollment("COURSE_001", "Completed",
                     Some(datetime(1, 10 * 60 + 54)))>>,
     <<ApiEnrollment("COURSE_001", "Completed", None)>>,
     <<ApiEnrollment(UnscheduledCourse, "Enrolled", None)>>,
     <<ApiEnrollment("COURSE_001", "In Progress", None),
       ApiEnrollment("COURSE_002", "Enrolled", None)>>}

(***************************************************************************)
(* SpecApi: the API with its data loaded answers requests.                 *)
(***************************************************************************)
\* load_data() has run: enrollments_data has the users of the enrollments
\* file, the service is built from the schedules
InitApi ==
    /\ \E ids \in SUBSET {"U001", "U002"} :
          api_enrollments_data \in [ids -> ApiEnrollmentLists]
    /\ responses = <<>>
    /\ schedules = JobSchedules
    /\ schedules_map = ScheduleStatusService(schedules)
    /\ current_date = 0
    /\ enrollment = None
    /\ schedule = None
    /\ now = 0
    /\ results = <<>>
    /\ enrollments = <<>>
    /\ statuses = None
    /\ user_summary = None
    /\ reminders = None
    /\ NoTemplateCall
    /\ NoJobRun

GetUserStatusRequest ==
    /\ Len(responses) < MaxRequests
    /\ \E user_id \in ApiUserIds, date \in AggDates :
          responses' = Append(responses,
              [endpoint |-> "status", user_id |-> user_id, date |-> date,
               response |->
                   api_get_user_status(api_enrollments_data, user_id, date)])
    /\ UNCHANGED <<serviceVars, templateVars, jobVars, emailVars>>
    /\ UNCHANGED api_enrollments_data

GetUserSummaryRequest ==
    /\ Len(responses) < MaxRequests
    /\ \E user_id \in ApiUserIds, date \in AggDates :
          responses' = Append(responses,
              [endpoint |-> "summary", user_id |-> user_id, date |-> date,
               response |->
                   api_get_user_summary(api_enrollments_data, user_id, date)])
    /\ UNCHANGED <<serviceVars, templateVars, jobVars, emailVars>>
    /\ UNCHANGED api_enrollments_data

NextApi == GetUserStatusRequest \/ GetUserSummaryRequest

SpecApi == InitApi /\ [][NextApi]_vars

(***************************************************************************)
(* Claims on the API, checked under SpecApi.                               *)
(***************************************************************************)
NotFound == Return(Response(404, [error |-> "No enrollments found"]))

\* the user has enrollments and the service finds no course of theirs
\* needing a reminder at the date
ZeroOutstanding(user_id, date) ==
    LET enrs == enrollments_of(api_enrollments_data, user_id)
        needing == get_courses_needing_reminder(enrs, date)
    IN  /\ enrs # <<>>
        /\ ~Raised(needing)
        /\ needing.value = <<>>

\* C28: the status and the summary endpoint answer a user with no
\* enrollments with the error "No enrollments found" and code 404, and
\* only such a user; a user who has enrollments and no outstanding
\* reminder gets code 200 with a list without NeedsReminder entries, or a
\* summary with needs_reminder = 0.
C28_NotFoundDistinctFromNoReminders ==
    \A i \in DOMAIN responses :
        LET r == responses[i]
            enrs == enrollments_of(api_enrollments_data, r.user_id)
        IN  /\ r.response = NotFound <=> enrs = <<>>
            /\ ZeroOutstanding(r.user_id, r.date) =>
                  /\ ~Raised(r.response)
                  /\ r.response.value.status_code = 200
                  /\ r.endpoint = "status" =>
                        \A k \in DOMAIN r.response.value.json :
                            r.response.value.json[k].status
                                # "needs reminder"
                  /\ r.endpoint = "summary" =>
                        r.response.value.json.needs_reminder = 0

\* a user in no file is answered 404, a user whose only course has no
\* schedule is answered 200 with a summary of no courses
C28_Witness ==
    /\ Len(responses) = 2
    /\ responses[1].user_id = "U003"
    /\ responses[1].response = NotFound
    /\ responses[2].endpoint = "summary"
    /\ ZeroOutstanding(responses[2].user_id, responses[2].date)
    /\ responses[2].response.value.status_code = 200
    /\ responses[2].response.value.json.total_courses = 0
    /\ responses[2].response.value.json.needs_reminder = 0

====
